---- MODULE Spec2Model ----
(***************************************************************************)
(* Model of config/ctrl_sensorless_vector_syrm_7kW.py: the module-level    *)
(* script that builds the base values, the controller parameters, the two  *)
(* optimal-locus lookup tables, the controller objects, the control        *)
(* pipeline and the two stimulus profiles, followed by the run-time use of *)
(* the interpolants it built (queries of the tables and the profiles).     *)
(*                                                                         *)
(* Numbers.  The script's reals are kept exact in two ways:                *)
(*   - BaseValues fields are rationals <<n, d>> in lowest terms, d > 0;    *)
(*     the default rated values are rounded to integers in SI units        *)
(*     (w = 665 rad/s, i = 22 A, u = 302 V).                               *)
(*   - currents, torques, times and table entries are elements a + b*sqrt2 *)
(*     of Z[sqrt 2], written <<a, b>>, because the configured current      *)
(*     limit is a multiple of sqrt 2 and the MTPA angle is 45 degrees.     *)
(*     Units: current 15.5 A, inductance 0.1 mH, time 0.25 s,              *)
(*     load torque 0.1 Nm, angular speed 1 rad/s.                          *)
(***************************************************************************)
EXTENDS Integers, Sequences, FiniteSets

VARIABLES pc, status, error, base, pars, opt_refs, i_s_mtpa, tau_M_mtpa,
          i_s_mtpv, speed_ctrl, current_ref, current_ctrl, observer, datalog,
          ctrl, speed_ref, tau_L_ext, t_stop, eval

vars == <<pc, status, error, base, pars, opt_refs, i_s_mtpa, tau_M_mtpa,
          i_s_mtpv, speed_ctrl, current_ref, current_ctrl, observer, datalog,
          ctrl, speed_ref, tau_L_ext, t_stop, eval>>

\* Python's None: a name not yet bound, an attribute not yet set.
None == <<>>

\* A float that is not a number.
NaN == <<"NaN">>

\* No exception has been raised.
NoError == "none"

(***************************************************************************)
(* Bounds of the model.                                                    *)
(***************************************************************************)
\* Number of intervals of a locus sweep (the sweep has NSweep + 1 points).
NSweep == 4

\* How far outside an interpolant's domain the queries reach.
QMargin == 2

(***************************************************************************)
(* Rationals <<n, d>>, for BaseValues.                                     *)
(***************************************************************************)
Abs(n) == IF n < 0 THEN -n ELSE n

RECURSIVE GCD(_, _)
GCD(a, b) == IF b = 0 THEN a ELSE GCD(b, a % b)

Rat(n, d) ==
  LET g == GCD(Abs(n), Abs(d))
      s == IF d < 0 THEN -1 ELSE 1
  IN  <<(s * n) \div g, (s * d) \div g>>

RMul(x, y) == Rat(x[1] * y[1], x[2] * y[2])

RDiv(x, y) == Rat(x[1] * y[2], x[2] * y[1])

(***************************************************************************)
(* Z[sqrt 2]: <<a, b>> is a + b*sqrt(2).                                   *)
(***************************************************************************)
R(a) == <<a, 0>>

Zero == R(0)

One == R(1)

Add(x, y) == <<x[1] + y[1], x[2] + y[2]>>

Sub(x, y) == <<x[1] - y[1], x[2] - y[2]>>

Mul(x, y) == <<x[1] * y[1] + 2 * x[2] * y[2], x[1] * y[2] + x[2] * y[1]>>

Sign(x) ==
  LET a == x[1]
      b == x[2]
  IN  IF a = 0 /\ b = 0 THEN 0
      ELSE IF a >= 0 /\ b >= 0 THEN 1
      ELSE IF a <= 0 /\ b <= 0 THEN -1
      ELSE IF a > 0 THEN (IF a * a > 2 * b * b THEN 1 ELSE -1)
      ELSE (IF 2 * b * b > a * a THEN 1 ELSE -1)

Less(x, y) == Sign(Sub(x, y)) < 0

\* x / sqrt(2), for x = a + b*sqrt(2) with a even.
DivSqrt2(x) == <<x[2], x[1] \div 2>>

IsNum(x) == x # NaN /\ x # None

(***************************************************************************)
(* BaseValues (lines 19-35).  The dataclass has four rated inputs and five *)
(* further fields whose defaults are evaluated once, in the class body,    *)
(* from the default rated values; there is no __post_init__.               *)
(***************************************************************************)
\* w: float = 2*np.pi*105.8, rounded to 1 rad/s.
DefW == 665

\* i: float = np.sqrt(2)*15.5, rounded to 1 A.
DefI == 22

\* u: float = np.sqrt(2/3)*370, rounded to 1 V.
DefU == 302

\* p: int = 2
DefP == 2

\* psi: float = u/w
DefPsi == RDiv(<<DefU, 1>>, <<DefW, 1>>)

\* P: float = 1.5*u*i
DefPower == RMul(<<3, 2>>, RMul(<<DefU, 1>>, <<DefI, 1>>))

\* Z: float = u/i
DefZ == RDiv(<<DefU, 1>>, <<DefI, 1>>)

\* L: float = Z/w
DefL == RDiv(DefZ, <<DefW, 1>>)

\* tau: float = p*P/w
DefTau == RDiv(RMul(<<DefP, 1>>, DefPower), <<DefW, 1>>)

\* BaseValues(w, i, u, p): the generated __init__ stores the arguments and
\* the class-level defaults of the remaining fields; it validates nothing.
BaseValues(w, i, u, p) ==
  [w |-> w, i |-> i, u |-> u, p |-> p,
   psi |-> DefPsi, P |-> DefPower, Z |-> DefZ, L |-> DefL, tau |-> DefTau]

\* Rated inputs tried: the default, another positive value, a non-positive one.
WSet == {DefW, 100, 0}

ISet == {DefI, -1}

USet == {DefU, 0}

PSet == {DefP, 1, 0}

(***************************************************************************)
(* CtrlParameters (lines 39-68): the fields the locus solver reads.        *)
(* i_sd_mtpa and i_sq_mtpv are not fields of the dataclass: they do not    *)
(* exist until lines 77 and 79 assign them.                                *)
(***************************************************************************)
\* i_s_max: float = 2*np.sqrt(2)*15.5
DefISMax == <<0, 2>>

\* L_d: float = 41.5e-3
DefLd == 415

\* L_q: float = 6.2e-3
DefLq == 62

\* psi_f: float = 0
DefPsiF == 0

\* p: int = 2
DefPolePairs == 2

CtrlParameters(i_s_max, L_d, L_q) ==
  [i_s_max |-> i_s_max, L_d |-> L_d, L_q |-> L_q, psi_f |-> DefPsiF,
   p |-> DefPolePairs, i_sd_mtpa |-> None, i_sq_mtpv |-> None]

\* Parameter estimates tried: the configured ones, equal inductances,
\* swapped inductances, and current limits that are zero or negative.
LSet == {DefLd, DefLq}

ISMaxSet == {DefISMax, <<0, 1>>, <<0, 0>>, <<0, -1>>}

(***************************************************************************)
(* control.sm.opt_refs.OptimalLoci, as the specification describes it      *)
(* (section 4.2), for psi_f = 0, the value the configuration sets.  A      *)
(* phasor is [re |-> d-axis current, im |-> q-axis current].               *)
(***************************************************************************)
\* torque(i_s) = p*(psi_f*imag(i_s) + (L_d - L_q)*real(i_s)*imag(i_s))
Torque(i_s, par) ==
  Mul(R(par.p), Add(Mul(R(par.psi_f), i_s.im),
                    Mul(R(par.L_d - par.L_q), Mul(i_s.re, i_s.im))))

\* The closed form of the salient machine: d(torque)/d(angle) = 0 on the
\* circle |i_s| = m gives the angle pi/4 (L_d > L_q) or 3*pi/4 (L_d < L_q);
\* the direction of the d-axis current is dL/|dL|, which is 0/0 at dL = 0.
ClosedForm(m, dL) ==
  IF dL = 0 THEN [re |-> NaN, im |-> NaN]
  ELSE [re |-> Mul(R(dL \div Abs(dL)), DivSqrt2(m)), im |-> DivSqrt2(m)]

\* One point of the MTPA locus: the degenerate machine (L_d = L_q) is
\* detected and answered with q-axis current only.
MtpaPhasor(m, par) ==
  IF par.L_d = par.L_q THEN [re |-> Zero, im |-> m]
  ELSE ClosedForm(m, par.L_d - par.L_q)

\* The sweep 0 .. i_max in NSweep equal steps; entry n holds the magnitude
\* (n - 1)*i_max/NSweep in units of 1/NSweep of the current unit.
Sweep(i_max) == [n \in 1..(NSweep + 1) |-> Mul(R(n - 1), i_max)]

\* mtpa(i_max): InvalidSweepRange for a bound <= 0, else the locus.
Mtpa(i_max, par) ==
  IF Sign(i_max) <= 0 THEN [ok |-> FALSE, err |-> "InvalidSweepRange"]
  ELSE [ok |-> TRUE,
        val |-> [n \in 1..(NSweep + 1) |-> MtpaPhasor(Sweep(i_max)[n], par)]]

\* One point of the MTPV locus: on the voltage ellipse
\* (L_d*i_d)^2 + (L_q*i_q)^2 = const the torque is largest where
\* L_d*i_d = L_q*i_q, the direction (L_q, L_d); the entry is kept in units
\* of 1/hypot(L_d, L_q) of the sweep's unit.
MtpvPhasor(m, par) == [re |-> Mul(R(par.L_q), m), im |-> Mul(R(par.L_d), m)]

\* mtpv(i_max): InvalidSweepRange for a bound <= 0, else the locus.
Mtpv(i_max, par) ==
  IF Sign(i_max) <= 0 THEN [ok |-> FALSE, err |-> "InvalidSweepRange"]
  ELSE [ok |-> TRUE,
        val |-> [n \in 1..(NSweep + 1) |-> MtpvPhasor(Sweep(i_max)[n], par)]]

\* numpy's .real and .imag of a complex array.
Real(arr) == [n \in DOMAIN arr |-> arr[n].re]

Imag(arr) == [n \in DOMAIN arr |-> arr[n].im]

\* opt_refs.torque(i_s) on an array.
TorqueArr(arr, par) == [n \in DOMAIN arr |-> Torque(arr[n], par)]

(***************************************************************************)
(* helpers.LUT and helpers.Sequence, as the specification describes them   *)
(* (section 4.3): an interpolant is [x |-> abscissa, y |-> values]; a      *)
(* result is the fraction [num, den] of two numbers, den # 0.              *)
(***************************************************************************)
LUT(x, y) == [x |-> x, y |-> y]

Sequence(times, values) == [x |-> times, y |-> values]

\* The last index whose abscissa is <= q (q is not below the first one).
LastAtOrBelow(xp, q) ==
  CHOOSE j \in 1..Len(xp) :
    /\ ~Less(q, xp[j])
    /\ \A n \in (j + 1)..Len(xp) : Less(q, xp[n])

\* A variant that extends the outer segments instead of clamping.
InterpExtrapolate(xp, fp, q) ==
  LET n == Len(xp)
      j == IF Less(q, xp[1]) THEN 1
           ELSE IF ~Less(q, xp[n]) THEN n - 1
           ELSE LastAtOrBelow(xp, q)
      den == Sub(xp[j + 1], xp[j])
  IN  [num |-> Add(Mul(fp[j], den), Mul(Sub(q, xp[j]), Sub(fp[j + 1], fp[j]))),
       den |-> den]

\* evaluate(q): clamped outside the abscissa, linear between two nodes,
\* and at a repeated abscissa the value of the last of the equal entries.
Interp(xp, fp, q) ==
  LET n == Len(xp) IN
  IF Less(q, xp[1]) THEN [num |-> fp[1], den |-> One]
  ELSE LET j == LastAtOrBelow(xp, q) IN
       IF j = n THEN [num |-> fp[n], den |-> One]
       ELSE LET den == Sub(xp[j + 1], xp[j]) IN
            [num |-> Add(Mul(fp[j], den),
                         Mul(Sub(q, xp[j]), Sub(fp[j + 1], fp[j]))),
             den |-> den]

\* Whether a result is the number v.
IsValue(r, v) == r.den # Zero /\ r.num = Mul(v, r.den)

(***************************************************************************)
(* The arrays the script builds (lines 77, 79, 94-100).                    *)
(***************************************************************************)
\* Line 77 with the arguments exchanged.
SdTableSwapped(tau, i_s) == LUT(Real(i_s), tau)

\* Line 77 reading the q-axis current.
SdTableImag(tau, i_s) == LUT(tau, Imag(i_s))

\* pars.i_sd_mtpa = LUT(tau_M_mtpa, i_s_mtpa.real)
SdTable(tau, i_s) == LUT(tau, Real(i_s))

\* pars.i_sq_mtpv = LUT(i_s_mtpv.real, i_s_mtpv.imag)
SqTable(i_s) == LUT(Real(i_s), Imag(i_s))

\* element-wise array*scalar
Scaled(arr, c) == [n \in DOMAIN arr |-> R(arr[n] * c)]

\* times = np.array([0, .5, 1, 1.5, 2, 2.5, 3, 3.5, 4]), in quarter seconds
SpeedRefTimes == Scaled(<<0, 2, 4, 6, 8, 10, 12, 14, 16>>, 1)

\* Line 95 with the ramp down to -w dropped.
SpeedRefValuesFlat(w) == Scaled(<<0, 0, 1, 1, 0, 0, 0, 0, 0>>, w)

\* values = np.array([0, 0, 1, 1, 0, -1, -1, 0, 0])*base.w
SpeedRefValues(w) == Scaled(<<0, 0, 1, 1, 0, -1, -1, 0, 0>>, w)

\* Line 98 with ramps of 0.25 s in place of the two steps.
LoadTimesRamp == Scaled(<<0, 2, 3, 14, 15, 16>>, 1)

\* times = np.array([0, .5, .5, 3.5, 3.5, 4]), in quarter seconds
LoadTimes == Scaled(<<0, 2, 2, 14, 14, 16>>, 1)

\* The load torque 20.1 Nm, in units of 0.1 Nm.
LoadTorque == 201

\* values = np.array([0, 0, 1, 1, 0, 0])*20.1
LoadValues == Scaled(<<0, 0, 1, 1, 0, 0>>, LoadTorque)

(***************************************************************************)
(* The controller objects and the pipeline.  The classes are external      *)
(* (control.common, control.sm.vector); a constructed object records its   *)
(* class and which of the two tables the CtrlParameters it was given held. *)
(***************************************************************************)
TablesOf(par) ==
  {f \in {"i_sd_mtpa", "i_sq_mtpv"} :
     (f = "i_sd_mtpa" /\ par.i_sd_mtpa # None)
     \/ (f = "i_sq_mtpv" /\ par.i_sq_mtpv # None)}

Construct(kind, par) == [kind |-> kind, tables |-> TablesOf(par)]

\* ctrl = SensorlessVectorCtrl(pars, speed_ctrl, current_ref,
\*                             current_ctrl, observer, datalog)
Compose(par, sc, cr, cc, ob, dl) ==
  [tables |-> TablesOf(par), speed_ctrl |-> sc, current_ref |-> cr,
   current_ctrl |-> cc, observer |-> ob, datalog |-> dl]

(***************************************************************************)
(* The script: its statements in program order, and what an exception      *)
(* does to a module-level script without try/except.                       *)
(***************************************************************************)
\* The statements with the controllers constructed before the loci.
ScriptCtrlFirst ==
  <<"L72", "L73", "L74", "L84", "L85", "L86", "L87", "L88", "L75", "L76",
    "L77", "L78", "L79", "L81", "L89", "L96", "L100", "L102">>

\* The statements of lines 72-102, by line number.
Script ==
  <<"L72", "L73", "L74", "L75", "L76", "L77", "L78", "L79", "L81", "L84",
    "L85", "L86", "L87", "L88", "L89", "L96", "L100", "L102">>

NextLine(line) ==
  LET n == CHOOSE m \in 1..Len(Script) : Script[m] = line
  IN  IF n = Len(Script) THEN "done" ELSE Script[n + 1]

\* A statement whose exception is swallowed.
AdvanceSwallow(ok, line) == [pc |-> NextLine(line), status |-> "running"]

\* After a statement: the next one, or the script ends with the exception.
Advance(ok, line) ==
  IF ok THEN [pc |-> NextLine(line), status |-> "running"]
  ELSE [pc |-> line, status |-> "failed"]

Finish(line, ok, err) ==
  /\ pc' = Advance(ok, line).pc
  /\ status' = Advance(ok, line).status
  /\ error' = IF ok THEN error ELSE err

At(line) == status = "running" /\ pc = line

Init ==
  /\ pc = Script[1]
  /\ status = "running"
  /\ error = NoError
  /\ base = None /\ pars = None /\ opt_refs = None
  /\ i_s_mtpa = None /\ tau_M_mtpa = None /\ i_s_mtpv = None
  /\ speed_ctrl = None /\ current_ref = None /\ current_ctrl = None
  /\ observer = None /\ datalog = None /\ ctrl = None
  /\ speed_ref = None /\ tau_L_ext = None /\ t_stop = None
  /\ eval = None

runtime == <<eval>>

\* base = BaseValues()
L72_BaseValues ==
  /\ At("L72")
  /\ \E w \in WSet, i \in ISet, u \in USet, p \in PSet :
       base' = BaseValues(w, i, u, p)
  /\ Finish("L72", TRUE, NoError)
  /\ UNCHANGED <<pars, opt_refs, i_s_mtpa, tau_M_mtpa, i_s_mtpv, speed_ctrl,
                 current_ref, current_ctrl, observer, datalog, ctrl,
                 speed_ref, tau_L_ext, t_stop, runtime>>

\* pars = CtrlParameters()
L73_CtrlParameters ==
  /\ At("L73")
  /\ \E i_s_max \in ISMaxSet, L_d \in LSet, L_q \in LSet :
       pars' = CtrlParameters(i_s_max, L_d, L_q)
  /\ Finish("L73", TRUE, NoError)
  /\ UNCHANGED <<base, opt_refs, i_s_mtpa, tau_M_mtpa, i_s_mtpv, speed_ctrl,
                 current_ref, current_ctrl, observer, datalog, ctrl,
                 speed_ref, tau_L_ext, t_stop, runtime>>

\* opt_refs = OptimalLoci(pars): the solver keeps the parameters.
L74_OptimalLoci ==
  /\ At("L74")
  /\ opt_refs' = IF pars = None THEN None
                 ELSE [L_d |-> pars.L_d, L_q |-> pars.L_q,
                       psi_f |-> pars.psi_f, p |-> pars.p]
  /\ Finish("L74", pars # None, "NameError")
  /\ UNCHANGED <<base, pars, i_s_mtpa, tau_M_mtpa, i_s_mtpv, speed_ctrl,
                 current_ref, current_ctrl, observer, datalog, ctrl,
                 speed_ref, tau_L_ext, t_stop, runtime>>

\* i_s_mtpa = opt_refs.mtpa(2*pars.i_s_max)
L75_Mtpa ==
  /\ At("L75")
  /\ LET defined == opt_refs # None /\ pars # None
         r == IF defined THEN Mtpa(Mul(R(2), pars.i_s_max), opt_refs)
              ELSE [ok |-> FALSE, err |-> "NameError"]
     IN  /\ i_s_mtpa' = IF r.ok THEN r.val ELSE i_s_mtpa
         /\ Finish("L75", r.ok, r.err)
  /\ UNCHANGED <<base, pars, opt_refs, tau_M_mtpa, i_s_mtpv, speed_ctrl,
                 current_ref, current_ctrl, observer, datalog, ctrl,
                 speed_ref, tau_L_ext, t_stop, runtime>>

\* tau_M_mtpa = opt_refs.torque(i_s_mtpa)
L76_Torque ==
  /\ At("L76")
  /\ LET defined == opt_refs # None /\ i_s_mtpa # None
     IN  /\ tau_M_mtpa' = IF defined THEN TorqueArr(i_s_mtpa, opt_refs)
                          ELSE tau_M_mtpa
         /\ Finish("L76", defined, "NameError")
  /\ UNCHANGED <<base, pars, opt_refs, i_s_mtpa, i_s_mtpv, speed_ctrl,
                 current_ref, current_ctrl, observer, datalog, ctrl,
                 speed_ref, tau_L_ext, t_stop, runtime>>

\* pars.i_sd_mtpa = LUT(tau_M_mtpa, i_s_mtpa.real)
L77_SdTable ==
  /\ At("L77")
  /\ LET defined == pars # None /\ tau_M_mtpa # None /\ i_s_mtpa # None
     IN  /\ pars' = IF defined
                    THEN [pars EXCEPT !.i_sd_mtpa = SdTable(tau_M_mtpa, i_s_mtpa)]
                    ELSE pars
         /\ Finish("L77", defined, "NameError")
  /\ UNCHANGED <<base, opt_refs, i_s_mtpa, tau_M_mtpa, i_s_mtpv, speed_ctrl,
                 current_ref, current_ctrl, observer, datalog, ctrl,
                 speed_ref, tau_L_ext, t_stop, runtime>>

\* i_s_mtpv = opt_refs.mtpv(2*pars.i_s_max)
L78_Mtpv ==
  /\ At("L78")
  /\ LET defined == opt_refs # None /\ pars # None
         r == IF defined THEN Mtpv(Mul(R(2), pars.i_s_max), opt_refs)
              ELSE [ok |-> FALSE, err |-> "NameError"]
     IN  /\ i_s_mtpv' = IF r.ok THEN r.val ELSE i_s_mtpv
         /\ Finish("L78", r.ok, r.err)
  /\ UNCHANGED <<base, pars, opt_refs, i_s_mtpa, tau_M_mtpa, speed_ctrl,
                 current_ref, current_ctrl, observer, datalog, ctrl,
                 speed_ref, tau_L_ext, t_stop, runtime>>

\* pars.i_sq_mtpv = LUT(i_s_mtpv.real, i_s_mtpv.imag)
L79_SqTable ==
  /\ At("L79")
  /\ LET defined == pars # None /\ i_s_mtpv # None
     IN  /\ pars' = IF defined
                    THEN [pars EXCEPT !.i_sq_mtpv = SqTable(i_s_mtpv)]
                    ELSE pars
         /\ Finish("L79", defined, "NameError")
  /\ UNCHANGED <<base, opt_refs, i_s_mtpa, tau_M_mtpa, i_s_mtpv, speed_ctrl,
                 current_ref, current_ctrl, observer, datalog, ctrl,
                 speed_ref, tau_L_ext, t_stop, runtime>>

\* opt_refs.plot(2*pars.i_s_max, base): draws, changes nothing.
L81_Plot ==
  /\ At("L81")
  /\ Finish("L81", opt_refs # None /\ pars # None /\ base # None, "NameError")
  /\ UNCHANGED <<base, pars, opt_refs, i_s_mtpa, tau_M_mtpa, i_s_mtpv,
                 speed_ctrl, current_ref, current_ctrl, observer, datalog,
                 ctrl, speed_ref, tau_L_ext, t_stop, runtime>>

\* An external constructor returns the object or raises.
Built(kind, ok) ==
  IF pars = None THEN [ok |-> FALSE, err |-> "NameError"]
  ELSE IF ~ok THEN [ok |-> FALSE, err |-> "ConstructorError"]
  ELSE [ok |-> TRUE, val |-> Construct(kind, pars)]

\* speed_ctrl = SpeedCtrl(pars)
L84_SpeedCtrl ==
  /\ At("L84")
  /\ \E ok \in BOOLEAN :
       LET r == Built("SpeedCtrl", ok)
       IN  /\ speed_ctrl' = IF r.ok THEN r.val ELSE speed_ctrl
           /\ Finish("L84", r.ok, r.err)
  /\ UNCHANGED <<base, pars, opt_refs, i_s_mtpa, tau_M_mtpa, i_s_mtpv,
                 current_ref, current_ctrl, observer, datalog, ctrl,
                 speed_ref, tau_L_ext, t_stop, runtime>>

\* current_ref = CurrentRef(pars)
L85_CurrentRef ==
  /\ At("L85")
  /\ \E ok \in BOOLEAN :
       LET r == Built("CurrentRef", ok)
       IN  /\ current_ref' = IF r.ok THEN r.val ELSE current_ref
           /\ Finish("L85", r.ok, r.err)
  /\ UNCHANGED <<base, pars, opt_refs, i_s_mtpa, tau_M_mtpa, i_s_mtpv,
                 speed_ctrl, current_ctrl, observer, datalog, ctrl,
                 speed_ref, tau_L_ext, t_stop, runtime>>

\* current_ctrl = CurrentCtrl(pars)
L86_CurrentCtrl ==
  /\ At("L86")
  /\ \E ok \in BOOLEAN :
       LET r == Built("CurrentCtrl", ok)
       IN  /\ current_ctrl' = IF r.ok THEN r.val ELSE current_ctrl
           /\ Finish("L86", r.ok, r.err)
  /\ UNCHANGED <<base, pars, opt_refs, i_s_mtpa, tau_M_mtpa, i_s_mtpv,
                 speed_ctrl, current_ref, observer, datalog, ctrl,
                 speed_ref, tau_L_ext, t_stop, runtime>>

\* observer = SensorlessObserver(pars)
L87_Observer ==
  /\ At("L87")
  /\ \E ok \in BOOLEAN :
       LET r == Built("SensorlessObserver", ok)
       IN  /\ observer' = IF r.ok THEN r.val ELSE observer
           /\ Finish("L87", r.ok, r.err)
  /\ UNCHANGED <<base, pars, opt_refs, i_s_mtpa, tau_M_mtpa, i_s_mtpv,
                 speed_ctrl, current_ref, current_ctrl, datalog, ctrl,
                 speed_ref, tau_L_ext, t_stop, runtime>>

\* datalog = Datalogger()
L88_Datalogger ==
  /\ At("L88")
  /\ datalog' = [kind |-> "Datalogger"]
  /\ Finish("L88", TRUE, NoError)
  /\ UNCHANGED <<base, pars, opt_refs, i_s_mtpa, tau_M_mtpa, i_s_mtpv,
                 speed_ctrl, current_ref, current_ctrl, observer, ctrl,
                 speed_ref, tau_L_ext, t_stop, runtime>>

\* ctrl = SensorlessVectorCtrl(pars, speed_ctrl, current_ref,
\*                             current_ctrl, observer, datalog)
L89_Compose ==
  /\ At("L89")
  /\ LET defined == /\ pars # None /\ speed_ctrl # None /\ current_ref # None
                    /\ current_ctrl # None /\ observer # None
                    /\ datalog # None
     IN  /\ ctrl' = IF defined
                    THEN Compose(pars, speed_ctrl, current_ref, current_ctrl,
                                 observer, datalog)
                    ELSE ctrl
         /\ Finish("L89", defined, "NameError")
  /\ UNCHANGED <<base, pars, opt_refs, i_s_mtpa, tau_M_mtpa, i_s_mtpv,
                 speed_ctrl, current_ref, current_ctrl, observer, datalog,
                 speed_ref, tau_L_ext, t_stop, runtime>>

\* mdl.speed_ref = Sequence(times, values), values scaled by base.w
L96_SpeedRef ==
  /\ At("L96")
  /\ speed_ref' = IF base = None THEN speed_ref
                  ELSE Sequence(SpeedRefTimes, SpeedRefValues(base.w))
  /\ Finish("L96", base # None, "NameError")
  /\ UNCHANGED <<base, pars, opt_refs, i_s_mtpa, tau_M_mtpa, i_s_mtpv,
                 speed_ctrl, current_ref, current_ctrl, observer, datalog,
                 ctrl, tau_L_ext, t_stop, runtime>>

\* mdl.mech.tau_L_ext = Sequence(times, values)
L100_LoadTorque ==
  /\ At("L100")
  /\ tau_L_ext' = Sequence(LoadTimes, LoadValues)
  /\ Finish("L100", TRUE, NoError)
  /\ UNCHANGED <<base, pars, opt_refs, i_s_mtpa, tau_M_mtpa, i_s_mtpv,
                 speed_ctrl, current_ref, current_ctrl, observer, datalog,
                 ctrl, speed_ref, t_stop, runtime>>

\* mdl.t_stop = mdl.speed_ref.times[-1]
L102_StopTime ==
  /\ At("L102")
  /\ t_stop' = IF speed_ref = None THEN t_stop
               ELSE speed_ref.x[Len(speed_ref.x)]
  /\ Finish("L102", speed_ref # None, "NameError")
  /\ UNCHANGED <<base, pars, opt_refs, i_s_mtpa, tau_M_mtpa, i_s_mtpv,
                 speed_ctrl, current_ref, current_ctrl, observer, datalog,
                 ctrl, speed_ref, tau_L_ext, runtime>>

config == <<pc, status, error, base, pars, opt_refs, i_s_mtpa, tau_M_mtpa,
            i_s_mtpv, speed_ctrl, current_ref, current_ctrl, observer,
            datalog, ctrl, speed_ref, tau_L_ext, t_stop>>

(***************************************************************************)
(* Run time: the simulation driver and the current-reference generator     *)
(* query the interpolants the script built.                                *)
(***************************************************************************)
Interpolants == {"i_sd_mtpa", "i_sq_mtpv", "speed_ref", "tau_L_ext"}

TableOf(name) ==
  CASE name = "i_sd_mtpa" -> pars.i_sd_mtpa
    [] name = "i_sq_mtpv" -> pars.i_sq_mtpv
    [] name = "speed_ref" -> speed_ref
    [] name = "tau_L_ext" -> tau_L_ext

\* Query points: every node, one unit past every node, and up to QMargin
\* units outside the domain on either side.
Queries(tab) ==
  LET n == Len(tab.x) IN
  {tab.x[j] : j \in 1..n}
  \cup {Add(tab.x[j], One) : j \in 1..n}
  \cup {Sub(tab.x[1], R(d)) : d \in 1..QMargin}
  \cup {Add(tab.x[n], R(d)) : d \in 1..QMargin}

Done == status = "running" /\ pc = "done"

\* One query at a time: the caller takes the result before it asks again.
Evaluate ==
  /\ Done
  /\ eval = None
  /\ \E name \in Interpolants :
       \E q \in Queries(TableOf(name)) :
         eval' = [of |-> name, q |-> q,
                  r |-> Interp(TableOf(name).x, TableOf(name).y, q)]
  /\ UNCHANGED config

\* The caller has used the result.
Consume ==
  /\ Done
  /\ eval # None
  /\ eval' = None
  /\ UNCHANGED config

Next ==
  \/ L72_BaseValues
  \/ L73_CtrlParameters
  \/ L74_OptimalLoci
  \/ L75_Mtpa
  \/ L76_Torque
  \/ L77_SdTable
  \/ L78_Mtpv
  \/ L79_SqTable
  \/ L81_Plot
  \/ L84_SpeedCtrl
  \/ L85_CurrentRef
  \/ L86_CurrentCtrl
  \/ L87_Observer
  \/ L88_Datalogger
  \/ L89_Compose
  \/ L96_SpeedRef
  \/ L100_LoadTorque
  \/ L102_StopTime
  \/ Evaluate
  \/ Consume

Spec == Init /\ [][Next]_vars

(***************************************************************************)
(* Properties.                                                             *)
(***************************************************************************)
BothTables == {"i_sd_mtpa", "i_sq_mtpv"}

Controllers == <<speed_ctrl, current_ref, current_ctrl, observer>>

\* C1: every controller object that exists was constructed from a
\* CtrlParameters that already held both lookup tables, and so was the
\* pipeline: the two tables are assigned before lines 84-90 run.
C1_TablesBeforeConstructors ==
  /\ \A n \in 1..4 :
       Controllers[n] # None => Controllers[n].tables = BothTables
  /\ ctrl # None => ctrl.tables = BothTables

\* The pipeline was assembled from four controllers that each saw both tables.
C1_Witness ==
  /\ ctrl # None
  /\ ctrl.tables = BothTables
  /\ \A n \in 1..4 : Controllers[n] # None /\ Controllers[n].tables = BothTables

First(tab) == tab.x[1]

Last(tab) == tab.x[Len(tab.x)]

\* C3: a query below the first abscissa of any of the four interpolants
\* returns the first value, a query above the last abscissa returns the
\* last value, and the query raises nothing.
C3_Clamping ==
  eval # None =>
    LET tab == TableOf(eval.of) IN
    /\ Less(eval.q, First(tab)) => IsValue(eval.r, tab.y[1])
    /\ Less(Last(tab), eval.q) => IsValue(eval.r, tab.y[Len(tab.y)])
    /\ status = "running" /\ error = NoError

\* A query above the torque range of the MTPA table returned its last,
\* non-zero, d-axis current.
C3_Witness ==
  /\ eval # None
  /\ eval.of = "i_sd_mtpa"
  /\ Less(Last(pars.i_sd_mtpa), eval.q)
  /\ eval.r.num # Zero
  /\ IsValue(eval.r, pars.i_sd_mtpa.y[NSweep + 1])

\* The last node whose abscissa equals that of node j.
LastEqual(tab, j) ==
  CHOOSE m \in j..Len(tab.x) :
    /\ tab.x[m] = tab.x[j]
    /\ \A n \in (m + 1)..Len(tab.x) : tab.x[n] # tab.x[j]

\* C4: a query at a node's abscissa returns that node's value, and where
\* abscissa entries repeat, the value of the last of the equal entries; the
\* load torque is 20.1 Nm at t = 0.5 s and 0 at t = 3.5 s.
C4_NodeRoundTrip ==
  eval # None =>
    LET tab == TableOf(eval.of) IN
    /\ \A j \in 1..Len(tab.x) :
         tab.x[j] = eval.q => IsValue(eval.r, tab.y[LastEqual(tab, j)])
    /\ eval.of = "tau_L_ext" /\ eval.q = R(2)
         => IsValue(eval.r, R(LoadTorque))
    /\ eval.of = "tau_L_ext" /\ eval.q = R(14) => IsValue(eval.r, Zero)

\* The load torque was queried at the step at t = 0.5 s.
C4_Witness ==
  /\ eval # None
  /\ eval.of = "tau_L_ext"
  /\ eval.q = R(2)
  /\ IsValue(eval.r, R(LoadTorque))

Positive(b) == b.w > 0 /\ b.i > 0 /\ b.u > 0 /\ b.p > 0

\* C5: a BaseValues record built from positive rated inputs satisfies
\* Z*i = u, L*w = Z, P = 1.5*u*i, tau*w = p*P and psi*w = u.
C5_BaseIdentities ==
  base # None /\ Positive(base) =>
    /\ RMul(base.Z, <<base.i, 1>>) = <<base.u, 1>>
    /\ RMul(base.L, <<base.w, 1>>) = base.Z
    /\ base.P = RMul(<<3, 2>>, <<base.u * base.i, 1>>)
    /\ RMul(base.tau, <<base.w, 1>>) = RMul(<<base.p, 1>>, base.P)
    /\ RMul(base.psi, <<base.w, 1>>) = <<base.u, 1>>

\* C6: no BaseValues record exists whose rated inputs are not all strictly
\* positive: such a construction fails with InvalidParameter.
C6_InvalidParameter ==
  /\ base # None => Positive(base)
  /\ pc = "L72" /\ status = "failed" => error = "InvalidParameter"

\* C7: with L_d = L_q every point of the MTPA locus has d-axis current 0,
\* the sweep raises nothing unless its bound is invalid, and the table
\* built from it holds numbers only, its d-axis currents being those zeros.
C7_Degenerate ==
  pars # None /\ pars.L_d = pars.L_q =>
    /\ i_s_mtpa # None => \A n \in DOMAIN i_s_mtpa : i_s_mtpa[n].re = Zero
    /\ status = "failed" /\ pc \in {"L75", "L76", "L77"}
         => error = "InvalidSweepRange" /\ Sign(pars.i_s_max) <= 0
    /\ pars.i_sd_mtpa # None =>
         \A n \in DOMAIN pars.i_sd_mtpa.x :
           /\ IsNum(pars.i_sd_mtpa.x[n])
           /\ IsNum(pars.i_sd_mtpa.y[n])
           /\ pars.i_sd_mtpa.y[n] = Zero

\* The table of a degenerate machine was built from a sweep whose last
\* point carries q-axis current.
C7_Witness ==
  /\ pars # None
  /\ pars.L_d = pars.L_q
  /\ pars.i_sd_mtpa # None
  /\ i_s_mtpa[NSweep + 1].im # Zero
  /\ status = "running"

\* C8: the abscissa of the torque -> d-axis-current table is the torque of
\* the swept MTPA points, in sweep order and non-decreasing (so no point
\* beyond a torque optimum is in the table), and torque 0 maps to d-axis
\* current 0.
C8_MonotoneTorque ==
  pars # None /\ pars.i_sd_mtpa # None =>
    LET tab == pars.i_sd_mtpa IN
    /\ Len(tab.x) = NSweep + 1
    /\ \A n \in 1..Len(tab.x) : tab.x[n] = Torque(i_s_mtpa[n], opt_refs)
    /\ \A n \in 1..(Len(tab.x) - 1) : ~Less(tab.x[n + 1], tab.x[n])
    /\ IsValue(Interp(tab.x, tab.y, Zero), Zero)

\* The table of a salient machine, with strictly increasing torque, was
\* queried at torque 0.
C8_Witness ==
  /\ eval # None
  /\ eval.of = "i_sd_mtpa"
  /\ eval.q = Zero
  /\ pars.L_d # pars.L_q
  /\ \A n \in 1..NSweep : Less(pars.i_sd_mtpa.x[n], pars.i_sd_mtpa.x[n + 1])

\* What must exist when the pipeline exists.
Assembled ==
  /\ pars # None
  /\ TablesOf(pars) = BothTables
  /\ \A n \in 1..4 : Controllers[n] # None

\* C9: a statement that raises ends the configuration: the status is
\* failed, nothing changes afterwards, and no pipeline exists; a pipeline
\* exists only with both tables and all four controllers.
C9_AbortOnFailure ==
  /\ [](error # NoError => status = "failed" /\ ctrl = None)
  /\ [](ctrl # None => Assembled)
  /\ [][error = NoError]_vars

\* The MTPA sweep was refused for a non-positive bound and nothing after
\* it was built.
C9_Witness ==
  /\ status = "failed"
  /\ error = "InvalidSweepRange"
  /\ pc = "L75"
  /\ Sign(pars.i_s_max) <= 0
  /\ ctrl = None

\* C10: the speed reference is base.w at t = 1.25 s and -0.5*base.w at
\* t = 2.25 s.
C10_SpeedRefMidpoints ==
  eval # None /\ eval.of = "speed_ref" =>
    /\ eval.q = R(5) => IsValue(eval.r, R(base.w))
    /\ eval.q = R(9) =>
         /\ eval.r.den # Zero
         /\ Mul(R(2), eval.r.num) = Mul(R(-base.w), eval.r.den)

\* The speed reference was queried at t = 2.25 s for the default base speed.
C10_Witness ==
  /\ eval # None
  /\ eval.of = "speed_ref"
  /\ eval.q = R(9)
  /\ base.w = DefW
  /\ eval.r.num # Zero
====
